---- MODULE Spec2Model ----
(***************************************************************************)
(* Networkgraph series (js/modules/networkgraph/networkgraph.src.js):      *)
(* node/link generation, the per-chart registry of shared layouts, the     *)
(* chart redraw hooks and the drag handlers, as a state machine.           *)
(*                                                                         *)
(* A node object is identified by <<series, key>>: series.createNode never *)
(* makes a second object for a key of the series.  A link point is         *)
(* identified by <<series, from, to>>; the data of a series holds no two   *)
(* equal links.  "undefined" is the string Undef for keys, 0 for a layout  *)
(* reference and the empty sequence for a position or a fixedPosition.     *)
(***************************************************************************)
EXTENDS Integers, Sequences, FiniteSets, TLC

\* ------------------------------------------------------------------ bounds
MaxPoints == 2
MaxDeclared == 1
MaxLayouts == 3
MaxGestures == 2
PlotWidth == 7
PlotHeight == 7
MaxIterations == 2
MaxMass == 3
DragThreshold == 5

Undef == "undefined"
Keys == {"A", "B"}
KeyOrUndef == Keys \cup {Undef}
Series == {1, 2}
Types == {"reingold-fruchterman", "custom"}
AllNodes == Series \X Keys
NoPos == << >>
LayoutPositions == {<<1, 1>>, <<6, 2>>}
PosChoices == [AllNodes -> LayoutPositions]
OneChoice == [n \in AllNodes |-> <<1, 1>>]
ChartXs == {0, 5, 6}
ChartYs == {0, 6}

VARIABLES
    points,          \* series.points: the links, each with fromNode/toNode
    nodes,           \* series.nodes: node keys in creation order
    linksFrom,       \* node.linksFrom, per series and key
    linksTo,         \* node.linksTo
    createCalls,     \* createNode calls per key in the last generatePoints
    optionsNodes,    \* series.options.nodes: the declared node ids
    visible,         \* series.visible
    layoutType,      \* series.options.layoutAlgorithm.type
    enableSimulation,\* series.options.layoutAlgorithm.enableSimulation
    draggable,       \* series.options.draggable
    fixedDraggable,  \* series.options.fixedDraggable
    forExport,       \* chart.options.chart.forExport: "undefined", "true", "false"
    mass,            \* node.mass
    seriesLayout,    \* series.layout: index into layouts, 0 when undefined
    hasStorage,      \* chart.graphLayoutsStorage is defined
    graphLayoutsStorage, \* per type: index into layouts, 0 when absent
    layouts,         \* every layout instance constructed so far
    plot,            \* node.plotX/plotY
    fixedPosition,   \* node.fixedPosition
    inDragMode,      \* node.inDragMode
    unbinders,       \* the load handler's unbinders, each the handler it unbinds
    listeners,       \* the handlers bound to the container and its document
    destroyed,       \* the chart's 'destroy' event has fired
    removed,         \* nodes whose 'remove' event fired and that the data has not named since
    phase,           \* "idle", or "redraw" between 'predraw' and 'render'
    translated,      \* series translated in the current redraw
    calls,           \* layout methods called by the last handler, in order
    ev               \* the last handler or method called, its input and what it returned

vars == <<points, nodes, linksFrom, linksTo, createCalls, optionsNodes, visible, layoutType,
          enableSimulation, draggable, fixedDraggable, forExport, mass, seriesLayout,
          hasStorage, graphLayoutsStorage, layouts, plot, fixedPosition,
          inDragMode, unbinders, listeners, destroyed, removed, phase, translated,
          calls, ev>>

configVars == <<layoutType, draggable, fixedDraggable, forExport, mass>>
graphVars == <<points, nodes, linksFrom, linksTo, createCalls, optionsNodes>>
dragVars == <<fixedPosition, inDragMode, unbinders, listeners>>

\* ----------------------------------------------------------------- helpers
defined(x) == x # Undef

Range(s) == {s[i] : i \in 1..Len(s)}

Abs(x) == IF x < 0 THEN -x ELSE x

SeqsUpTo(S, n) == UNION {[1..k -> S] : k \in 0..n}

Distinct(s) == \A i, j \in 1..Len(s) : s[i] = s[j] => i = j

LinkData == [from : KeyOrUndef, to : KeyOrUndef]

\* series.options.data: up to MaxPoints links, no two equal
AllData == {d \in SeqsUpTo(LinkData, MaxPoints) : Distinct(d)}

\* series.options.nodes: up to MaxDeclared node ids
AllDeclared == SeqsUpTo(Keys, MaxDeclared)

Event(name, s, key, x, y) ==
    [name |-> name, series |-> s, key |-> key, chartX |-> x, chartY |-> y,
     ret |-> Undef]

\* ------------------------------------------------- the layout (H.layouts[type])
NewLayout(type, enable) ==
    [type |-> type, enableSimulation |-> enable, series |-> {}, nodes |-> {},
     links |-> {}, box |-> <<0, 0, 0, 0>>, simulation |-> FALSE,
     initialRendering |-> TRUE, maxIterations |-> MaxIterations,
     iterations |-> 0]

\* The world a handler acts on: what layout methods read or write.
World == [layouts |-> layouts, plot |-> plot, fixedPosition |-> fixedPosition,
          inDragMode |-> inDragMode, calls |-> << >>,
          hasStorage |-> hasStorage, storage |-> graphLayoutsStorage,
          seriesLayout |-> seriesLayout, enableSimulation |-> enableSimulation]

Pinned(W) == {n \in AllNodes : W.fixedPosition[n] # << >>}

\* The call is logged with what the layout and the points are as it is made.
Log(W, l, op, arg) ==
    [W EXCEPT !.calls = Append(@, [op |-> op, layout |-> l, arg |-> arg,
                                   active |-> W.layouts[l].simulation,
                                   pinned |-> Pinned(W),
                                   dragging |-> {n \in AllNodes : W.inDragMode[n]}])]

setArea(W, l, x, y, w, h) ==
    [Log(W, l, "setArea", <<x, y, w, h>>) EXCEPT !.layouts[l].box = <<x, y, w, h>>]

\* Registration of a graph: its collections are rebuilt from what it reports next.
addSeries(W, l, s) ==
    [Log(W, l, "addSeries", <<s>>) EXCEPT
        !.layouts[l].series = @ \cup {s},
        !.layouts[l].nodes = {n \in @ : n[1] # s},
        !.layouts[l].links = {p \in @ : p[1] # s}]

addNodes(W, l, ns) ==
    [Log(W, l, "addNodes", <<ns>>) EXCEPT !.layouts[l].nodes = @ \cup ns]

addLinks(W, l, ps) ==
    [Log(W, l, "addLinks", <<ps>>) EXCEPT
        !.layouts[l].links = @ \cup {<<p.series, p.from, p.to>> : p \in ps}]

\* The endpoints of a registered link are the node objects of its keys.
Incident(p, n) == p[1] = n[1] /\ (p[2] = n[2] \/ p[3] = n[2])

removeNode(W, l, n) ==
    [Log(W, l, "removeNode", <<n>>) EXCEPT
        !.layouts[l].nodes = @ \ {n},
        !.layouts[l].links = {p \in @ : ~Incident(p, n)}]

removeLink(W, l, p) ==
    [Log(W, l, "removeLink", <<p>>) EXCEPT !.layouts[l].links = @ \ {p}]

stop(W, l) ==
    [Log(W, l, "stop", << >>) EXCEPT
        !.layouts[l].simulation = FALSE,
        !.layouts[l].iterations = 0]

setMaxIterations(W, l, n) ==
    [Log(W, l, "setMaxIterations", <<n>>) EXCEPT !.layouts[l].maxIterations = n]

setInitialRendering(W, l, b) ==
    [Log(W, l, "setInitialRendering", <<b>>) EXCEPT
        !.layouts[l].initialRendering = b]

resetSimulation(W, l) == Log(W, l, "resetSimulation", << >>)

\* Initializing: nodes of the layout without a position get a starting one.
Placed(W, l, choice) ==
    [n \in AllNodes |->
        IF n \in W.layouts[l].nodes /\ W.plot[n] = NoPos /\ W.layouts[l].initialRendering
        THEN choice[n] ELSE W.plot[n]]

\* One or more iterations: every positioned node of the layout that is not
\* pinned moves; a pinned node keeps its position.
Iterated(W, l, pl, choice) ==
    [n \in AllNodes |->
        IF n \in W.layouts[l].nodes /\ pl[n] # NoPos /\ n \notin Pinned(W)
        THEN choice[n] ELSE pl[n]]

run(W, l, choice) ==
    LET W1 == Log(W, l, "run", << >>)
        L == W1.layouts[l]
        pl == Placed(W1, l, choice)
    IN  IF L.nodes = {} THEN W1
        ELSE IF L.enableSimulation
        THEN [W1 EXCEPT !.plot = pl,
                        !.layouts[l].simulation = TRUE,
                        !.layouts[l].iterations = 0]
        ELSE [W1 EXCEPT !.plot = Iterated(W1, l, pl, choice),
                        !.layouts[l].simulation = FALSE,
                        !.layouts[l].iterations = L.maxIterations]

\* ------------------------------------------------------- generatePoints
\* Series.prototype.generatePoints: a point object per item of the data.
SeriesGeneratePoints(s, data) ==
    [i \in 1..Len(data) |->
        [series |-> s, from |-> data[i].from, to |-> data[i].to,
         fromNode |-> Undef, toNode |-> Undef]]

\* NodesMixin.createNode: the node of the series with this id, made and
\* pushed to series.nodes when there is none.
createNode(ns, id) == IF id \in Range(ns) THEN ns ELSE Append(ns, id)

\* The lookup of the pass is ignored: every reference creates.
MutNeedsCreate(nodeLookup, key) == TRUE

\* !nodeLookup[key]
NeedsCreate(nodeLookup, key) == key \notin nodeLookup

\* if (!nodeLookup[key]) { nodeLookup[key] = this.createNode(key); }
LookupNode(acc, key) ==
    IF NeedsCreate(acc.nodeLookup, key)
    THEN [acc EXCEPT !.nodes = createNode(@, key),
                     !.nodeLookup = @ \cup {key},
                     !.createCalls[key] = @ + 1]
    ELSE acc

\* The link lists of the previous pass are kept.
MutResetLinks(ns, links) == links

\* Reset links from previous run
ResetLinks(ns, links) == [k \in Keys |-> IF k \in Range(ns) THEN << >> ELSE links[k]]

\* The body of this.points.forEach
PointStep(acc, p) ==
    LET a1 == IF defined(p.from)
              THEN [LookupNode(acc, p.from) EXCEPT
                        !.linksFrom[p.from] = Append(@, <<p.from, p.to>>)]
              ELSE acc
        a2 == IF defined(p.to)
              THEN [LookupNode(a1, p.to) EXCEPT
                        !.linksTo[p.to] = Append(@, <<p.from, p.to>>)]
              ELSE a1
        q == [p EXCEPT !.fromNode = IF defined(p.from) THEN p.from ELSE @,
                       !.toNode = IF defined(p.to) THEN p.to ELSE @]
    IN  [a2 EXCEPT !.points = Append(@, q)]

RECURSIVE PointsLoop(_, _, _)
PointsLoop(acc, pts, i) ==
    IF i > Len(pts) THEN acc ELSE PointsLoop(PointStep(acc, pts[i]), pts, i + 1)

\* The body of this.options.nodes.forEach
RECURSIVE DeclaredLoop(_, _, _)
DeclaredLoop(acc, declared, i) ==
    IF i > Len(declared) THEN acc
    ELSE DeclaredLoop(LookupNode(acc, declared[i]), declared, i + 1)

generatePoints(s, data, declared) ==
    LET pts == SeriesGeneratePoints(s, data)
        acc0 == [nodes |-> nodes[s], nodeLookup |-> {},
                 createCalls |-> [k \in Keys |-> 0],
                 linksFrom |-> ResetLinks(nodes[s], linksFrom[s]),
                 linksTo |-> ResetLinks(nodes[s], linksTo[s]),
                 points |-> << >>]
    IN  DeclaredLoop(PointsLoop(acc0, pts, 1), declared, 1)

\* ---------------------------------------------------------- deferLayout
\* The stored layout is ignored: every deferLayout constructs one.
MutShouldCreate(layout) == TRUE

\* if (!layout)
ShouldCreate(layout) == layout = 0

\* chart.forExport is not looked at.
MutExportOverride(export, configured) == configured

\* !defined(chartOptions.forExport) ? layoutOptions.enableSimulation
\*                                  : !chartOptions.forExport
ExportOverride(export, configured) ==
    IF ~defined(export) THEN configured ELSE export # "true"

\* A stored layout takes the enableSimulation option of every series that
\* registers with it.
MutDeferLayoutReconfigure(W, s, ns, pts) ==
    IF ~visible[s] THEN W
    ELSE
    LET type == layoutType[s]
        W0 == [W EXCEPT !.hasStorage = TRUE]
        W1 == IF ShouldCreate(W0.storage[type])
              THEN LET en == ExportOverride(forExport, W0.enableSimulation[s])
                   IN  [W0 EXCEPT !.enableSimulation[s] = en,
                                  !.layouts = Append(@, NewLayout(type, en)),
                                  !.storage[type] = Len(W0.layouts) + 1]
              ELSE [W0 EXCEPT !.layouts[W0.storage[type]].enableSimulation =
                                    W0.enableSimulation[s]]
        l == W1.storage[type]
        W2 == [W1 EXCEPT !.seriesLayout[s] = l]
    IN  addLinks(
            addNodes(
                addSeries(setArea(W2, l, 0, 0, PlotWidth, PlotHeight), l, s),
                l, {<<s, k>> : k \in Range(ns)}),
            l, Range(pts))

\* series.visible is not looked at.
MutDeferLayout(W, s, ns, pts) ==
    LET type == layoutType[s]
        W0 == [W EXCEPT !.hasStorage = TRUE]
        W1 == IF ShouldCreate(W0.storage[type])
              THEN LET en == ExportOverride(forExport, W0.enableSimulation[s])
                   IN  [W0 EXCEPT !.enableSimulation[s] = en,
                                  !.layouts = Append(@, NewLayout(type, en)),
                                  !.storage[type] = Len(W0.layouts) + 1]
              ELSE W0
        l == W1.storage[type]
        W2 == [W1 EXCEPT !.seriesLayout[s] = l]
    IN  addLinks(
            addNodes(
                addSeries(setArea(W2, l, 0, 0, PlotWidth, PlotHeight), l, s),
                l, {<<s, k>> : k \in Range(ns)}),
            l, Range(pts))

deferLayout(W, s, ns, pts) ==
    IF ~visible[s] THEN W
    ELSE
    LET type == layoutType[s]
        W0 == [W EXCEPT !.hasStorage = TRUE]
        W1 == IF ShouldCreate(W0.storage[type])
              THEN LET en == ExportOverride(forExport, W0.enableSimulation[s])
                   IN  [W0 EXCEPT !.enableSimulation[s] = en,
                                  !.layouts = Append(@, NewLayout(type, en)),
                                  !.storage[type] = Len(W0.layouts) + 1]
              ELSE W0
        l == W1.storage[type]
        W2 == [W1 EXCEPT !.seriesLayout[s] = l]
    IN  addLinks(
            addNodes(
                addSeries(setArea(W2, l, 0, 0, PlotWidth, PlotHeight), l, s),
                l, {<<s, k>> : k \in Range(ns)}),
            l, Range(pts))

Commit(W) ==
    /\ layouts' = W.layouts
    /\ plot' = W.plot
    /\ calls' = W.calls
    /\ hasStorage' = W.hasStorage
    /\ graphLayoutsStorage' = W.storage
    /\ seriesLayout' = W.seriesLayout
    /\ enableSimulation' = W.enableSimulation

Named(data, declared) ==
    {data[i].from : i \in 1..Len(data)} \cup {data[i].to : i \in 1..Len(data)}
        \cup Range(declared)

\* series.translate: generatePoints, then deferLayout (the loop that follows
\* sets drawing attributes only).  The data and the declared nodes are what
\* the series options hold at this redraw.
Translate(s, data, declared) ==
    /\ phase = "redraw"
    /\ ~destroyed
    /\ s \notin translated
    /\ \E g \in {generatePoints(s, data, declared)} :
       \E W \in {deferLayout(World, s, g.nodes, g.points)} :
           /\ Len(W.layouts) <= MaxLayouts
           /\ points' = [points EXCEPT ![s] = g.points]
           /\ nodes' = [nodes EXCEPT ![s] = g.nodes]
           /\ linksFrom' = [linksFrom EXCEPT ![s] = g.linksFrom]
           /\ linksTo' = [linksTo EXCEPT ![s] = g.linksTo]
           /\ createCalls' = [createCalls EXCEPT ![s] = g.createCalls]
           /\ optionsNodes' = [optionsNodes EXCEPT ![s] = declared]
           /\ Commit(W)
    /\ translated' = translated \cup {s}
    /\ removed' = {n \in removed : ~(n[1] = s /\ n[2] \in Named(data, declared))}
    /\ ev' = Event("translate", s, Undef, 0, 0)
    /\ UNCHANGED <<visible, configVars, dragVars, destroyed, phase>>

\* ------------------------------------------------------ chart and events
\* The layouts of graphLayoutsStorage, in the order their keys were added.
Stored(W) == {l \in 1..Len(W.layouts) : \E t \in Types : W.storage[t] = l}

\* The 'predraw' handler leaves the stored layouts as they are.
MutStopAll(W, ls) == W

RECURSIVE StopAll(_, _)
StopAll(W, ls) ==
    IF ls = {} THEN W
    ELSE LET l == CHOOSE x \in ls : \A y \in ls : x <= y
         IN  StopAll(stop(W, l), ls \ {l})

RECURSIVE RunAll(_, _, _)
RunAll(W, ls, choice) ==
    IF ls = {} THEN W
    ELSE LET l == CHOOSE x \in ls : \A y \in ls : x <= y
         IN  RunAll(run(W, l, choice), ls \ {l}, choice)

\* addEvent(Chart, 'predraw')
Predraw ==
    /\ phase = "idle"
    /\ ~destroyed
    /\ \E W \in {IF hasStorage THEN StopAll(World, Stored(World)) ELSE World} :
            Commit(W)
    /\ phase' = "redraw"
    /\ translated' = {}
    /\ ev' = Event("predraw", 0, Undef, 0, 0)
    /\ UNCHANGED <<graphVars, visible, configVars, dragVars, destroyed, removed>>

\* addEvent(Chart, 'render')
Render(choice) ==
    /\ phase = "redraw"
    /\ ~destroyed
    /\ \E W \in {IF hasStorage THEN RunAll(World, Stored(World), choice) ELSE World} :
            Commit(W)
    /\ phase' = "idle"
    /\ ev' = Event("render", 0, Undef, 0, 0)
    /\ UNCHANGED <<graphVars, visible, configVars, dragVars, destroyed, removed,
                   translated>>

\* addEvent(seriesTypes.networkgraph, 'updatedData')
UpdatedData(s) ==
    /\ phase = "idle"
    /\ ~destroyed
    /\ \E W \in {IF seriesLayout[s] # 0 THEN stop(World, seriesLayout[s]) ELSE World} :
            Commit(W)
    /\ ev' = Event("updatedData", s, Undef, 0, 0)
    /\ UNCHANGED <<graphVars, visible, configVars, dragVars, destroyed, removed,
                   phase, translated>>

\* Every removed point is handed to removeNode.
MutOnRemove(W, s, isNode, point) ==
    IF W.seriesLayout[s] # 0
    THEN removeNode(W, W.seriesLayout[s], point)
    ELSE W

\* The 'remove' handler of a point of series s
onRemove(W, s, isNode, point) ==
    IF W.seriesLayout[s] # 0
    THEN IF isNode
         THEN removeNode(W, W.seriesLayout[s], point)
         ELSE removeLink(W, W.seriesLayout[s], point)
    ELSE W

\* addEvent(pointClass, 'remove') on a node
RemoveNode(s, k) ==
    /\ phase = "idle"
    /\ ~destroyed
    /\ k \in Range(nodes[s])
    /\ \E W \in {onRemove(World, s, TRUE, <<s, k>>)} : Commit(W)
    /\ removed' = removed \cup {<<s, k>>}
    /\ ev' = Event("removeNode", s, k, 0, 0)
    /\ UNCHANGED <<graphVars, visible, configVars, dragVars, destroyed, phase,
                   translated>>

\* addEvent(pointClass, 'remove') on a link
RemoveLink(s, i) ==
    /\ phase = "idle"
    /\ ~destroyed
    /\ i \in 1..Len(points[s])
    /\ \E W \in {onRemove(World, s, FALSE,
                          <<s, points[s][i].from, points[s][i].to>>)} :
            Commit(W)
    /\ ev' = Event("removeLink", s, Undef, i, 0)
    /\ UNCHANGED <<graphVars, visible, configVars, dragVars, destroyed, removed,
                   phase, translated>>

\* series.setVisible
SetVisible(s) ==
    /\ phase = "idle"
    /\ ~destroyed
    /\ visible' = [visible EXCEPT ![s] = ~@]
    /\ calls' = << >>
    /\ ev' = Event("setVisible", s, Undef, 0, 0)
    /\ UNCHANGED <<graphVars, configVars, enableSimulation, seriesLayout,
                   hasStorage, graphLayoutsStorage, layouts, plot, dragVars,
                   destroyed, removed, phase, translated>>

\* One tick of a live simulation (layout.step from requestAnimationFrame).
Step(l, choice, done) ==
    /\ phase = "idle"
    /\ ~destroyed
    /\ l \in 1..Len(layouts)
    /\ layouts[l].simulation
    /\ LET n == layouts[l].iterations + 1
       IN  /\ layouts' = [layouts EXCEPT
                ![l].iterations = n,
                ![l].simulation = ~(done \/ n >= layouts[l].maxIterations)]
           /\ plot' = Iterated(World, l, plot, choice)
    /\ calls' = << >>
    /\ ev' = Event("step", 0, Undef, l, 0)
    /\ UNCHANGED <<graphVars, visible, configVars, enableSimulation, seriesLayout,
                   hasStorage, graphLayoutsStorage, dragVars, destroyed, removed,
                   phase, translated>>

\* -------------------------------------------------------- point methods
\* The floor of the degree is left out.
MutGetDegree(isNode, from, to) == IF isNode THEN Len(from) + Len(to) ELSE 0

\* var deg = this.isNode ? this.linksFrom.length + this.linksTo.length : 0;
\* return deg === 0 ? 1 : deg;
getDegree(isNode, from, to) ==
    LET deg == IF isNode THEN Len(from) + Len(to) ELSE 0
    IN  IF deg = 0 THEN 1 ELSE deg

\* Numbers that are not integers are fractions <<numerator, denominator>>
\* with a positive denominator: the quotient and the difference are exact.
Q(n) == <<n, 1>>
QDiv(a, b) == IF b[1] > 0 THEN <<a[1] * b[2], a[2] * b[1]>>
                          ELSE <<-(a[1] * b[2]), -(a[2] * b[1])>>
QSub(a, b) == <<a[1] * b[2] - b[1] * a[2], a[2] * b[2]>>
QMul(a, b) == <<a[1] * b[1], a[2] * b[2]>>
QEq(a, b) == a[1] * b[2] = b[1] * a[2]

\* Each endpoint gets the share of its own mass.
MutGetMass(m1, m2) ==
    [fromNode |-> QDiv(Q(m1), Q(m1 + m2)), toNode |-> QDiv(Q(m2), Q(m1 + m2))]

getMass(m1, m2) ==
    LET sum == m1 + m2
    IN  [fromNode |-> QSub(Q(1), QDiv(Q(m1), Q(sum))),
         toNode |-> QSub(Q(1), QDiv(Q(m2), Q(sum)))]

\* A call of a point method changes nothing but what the caller holds.
Called(e) ==
    /\ ~destroyed
    /\ ev' = e
    /\ calls' = << >>
    /\ UNCHANGED <<graphVars, visible, configVars, enableSimulation, seriesLayout,
                   hasStorage, graphLayoutsStorage, layouts, plot, dragVars,
                   destroyed, removed, phase, translated>>

\* node.getDegree()
GetDegree(s, k) ==
    /\ k \in Range(nodes[s])
    /\ Called([Event("getDegree", s, k, 0, 0) EXCEPT
                !.ret = getDegree(TRUE, linksFrom[s][k], linksTo[s][k])])

\* point.getDegree() of a link: it has no link lists
GetLinkDegree(s, i) ==
    /\ i \in 1..Len(points[s])
    /\ Called([Event("getLinkDegree", s, Undef, i, 0) EXCEPT
                !.ret = getDegree(FALSE, << >>, << >>)])

\* point.getMass() of a link with both its nodes
GetMass(s, i) ==
    /\ i \in 1..Len(points[s])
    /\ defined(points[s][i].fromNode)
    /\ defined(points[s][i].toNode)
    /\ Called([Event("getMass", s, Undef, i, 0) EXCEPT
                !.ret = getMass(mass[<<s, points[s][i].fromNode>>],
                                mass[<<s, points[s][i].toNode>>])])

\* ------------------------------------------------------------- dragging
CommitDrag(W) ==
    /\ Commit(W)
    /\ fixedPosition' = W.fixedPosition
    /\ inDragMode' = W.inDragMode

\* chart.isInsidePlot
isInsidePlot(x, y) == x >= 0 /\ x <= PlotWidth /\ y >= 0 /\ y <= PlotHeight

\* The threshold compared with >= instead of >.
MutExceeds(diffX, diffY) == Abs(diffX) >= DragThreshold \/ Abs(diffY) >= DragThreshold

\* At least 5px to apply change (avoids simple click)
Exceeds(diffX, diffY) == Abs(diffX) > DragThreshold \/ Abs(diffY) > DragThreshold

\* The position is recorded, the point is not put in drag mode.
MutOnMouseDown(W, n, x, y) ==
    [W EXCEPT !.fixedPosition[n] = <<[chartX |-> x, chartY |-> y,
                                      plotX |-> W.plot[n][1],
                                      plotY |-> W.plot[n][2]]>>]

onMouseDown(W, n, x, y) ==
    [W EXCEPT !.fixedPosition[n] = <<[chartX |-> x, chartY |-> y,
                                      plotX |-> W.plot[n][1],
                                      plotY |-> W.plot[n][2]]>>,
              !.inDragMode[n] = TRUE]

\* The defaults are not restored after the run.
MutStartSimulation(W, l, choice) ==
    LET W1 == IF ~W.layouts[l].enableSimulation
              THEN setMaxIterations(W, l, 1) ELSE W
    IN  run(setInitialRendering(W1, l, FALSE), l, choice)

\* Start new simulation
StartSimulation(W, l, choice) ==
    LET W1 == IF ~W.layouts[l].enableSimulation
              THEN setMaxIterations(W, l, 1) ELSE W
    IN  setInitialRendering(
            run(setInitialRendering(W1, l, FALSE), l, choice), l, TRUE)

\* The running simulation is started again instead of extended.
MutExtendSimulation(W, l, choice) == run(W, l, choice)

\* Extend current simulation
ExtendSimulation(W, l, choice) == resetSimulation(W, l)

\* The pointer's move is applied to the point.
Accepted(W, n, x, y) ==
    /\ W.fixedPosition[n] # << >>
    /\ W.inDragMode[n]
    /\ LET fp == W.fixedPosition[n][1]
           diffX == fp.chartX - x
           diffY == fp.chartY - y
       IN  /\ Exceeds(diffX, diffY)
           /\ isInsidePlot(fp.plotX - diffX, fp.plotY - diffY)

\* inDragMode is not looked at: a fixedPosition is enough.
MutOnMouseMoveReleased(W, n, x, y, choice) ==
    IF W.fixedPosition[n] # << >>
    THEN LET fp == W.fixedPosition[n][1]
             diffX == fp.chartX - x
             diffY == fp.chartY - y
             newPlotX == fp.plotX - diffX
             newPlotY == fp.plotY - diffY
             l == W.seriesLayout[n[1]]
         IN  IF Exceeds(diffX, diffY) /\ isInsidePlot(newPlotX, newPlotY)
             THEN LET W1 == [W EXCEPT !.plot[n] = <<newPlotX, newPlotY>>]
                  IN  IF ~W1.layouts[l].simulation
                      THEN StartSimulation(W1, l, choice)
                      ELSE ExtendSimulation(W1, l, choice)
             ELSE W
    ELSE W

\* The displacement is added to where the point is, not to where the
\* gesture started.
MutOnMouseMove(W, n, x, y, choice) ==
    IF W.fixedPosition[n] # << >> /\ W.inDragMode[n]
    THEN LET fp == W.fixedPosition[n][1]
             diffX == fp.chartX - x
             diffY == fp.chartY - y
             newPlotX == W.plot[n][1] - diffX
             newPlotY == W.plot[n][2] - diffY
             l == W.seriesLayout[n[1]]
         IN  IF Exceeds(diffX, diffY) /\ isInsidePlot(newPlotX, newPlotY)
             THEN LET W1 == [W EXCEPT !.plot[n] = <<newPlotX, newPlotY>>]
                  IN  IF ~W1.layouts[l].simulation
                      THEN StartSimulation(W1, l, choice)
                      ELSE ExtendSimulation(W1, l, choice)
             ELSE W
    ELSE W

onMouseMove(W, n, x, y, choice) ==
    IF W.fixedPosition[n] # << >> /\ W.inDragMode[n]
    THEN LET fp == W.fixedPosition[n][1]
             diffX == fp.chartX - x
             diffY == fp.chartY - y
             newPlotX == fp.plotX - diffX
             newPlotY == fp.plotY - diffY
             l == W.seriesLayout[n[1]]
         IN  IF Exceeds(diffX, diffY) /\ isInsidePlot(newPlotX, newPlotY)
             THEN LET W1 == [W EXCEPT !.plot[n] = <<newPlotX, newPlotY>>]
                  IN  IF ~W1.layouts[l].simulation
                      THEN StartSimulation(W1, l, choice)
                      ELSE ExtendSimulation(W1, l, choice)
             ELSE W
    ELSE W

onMouseUp(W, n, choice) ==
    IF W.fixedPosition[n] # << >>
    THEN LET W1 == run(W, W.seriesLayout[n[1]], choice)
             W2 == [W1 EXCEPT !.inDragMode[n] = FALSE]
         IN  IF ~fixedDraggable[n[1]]
             THEN [W2 EXCEPT !.fixedPosition[n] = << >>]
             ELSE W2
    ELSE W

Handler(kind, n) == [kind |-> kind, node |-> n]

NoNode == <<0, Undef>>

\* H.addEvent: the handler is bound; what is returned unbinds it.
addEvent(ls, h) == Append(ls, h)

\* The function addEvent returned for h is called: h is no longer bound.
unbind(ls, h) ==
    IF \E i \in 1..Len(ls) : ls[i] = h
    THEN LET k == CHOOSE i \in 1..Len(ls) : ls[i] = h /\ \A j \in 1..(i - 1) : ls[j] # h
         IN  [i \in 1..(Len(ls) - 1) |-> IF i < k THEN ls[i] ELSE ls[i + 1]]
    ELSE ls

\* unbinders.forEach(function (unbind) { unbind(); })
RECURSIVE UnbindAll(_, _, _)
UnbindAll(ls, us, i) ==
    IF i > Len(us) THEN ls ELSE UnbindAll(unbind(ls, us[i]), us, i + 1)

\* The unbinder of the mouseup handler is not kept.
MutPushed(n) == <<Handler("mousemove", n)>>

\* The unbinders a mousedown pushes: of its mousemove and mouseup handlers.
Pushed(n) == <<Handler("mousemove", n), Handler("mouseup", n)>>

\* addEvent(Chart, 'load'): binds the container's mousedown handler.
Load ==
    /\ ~destroyed
    /\ unbinders = << >>
    /\ unbinders' = <<Handler("mousedown", NoNode)>>
    /\ listeners' = addEvent(listeners, Handler("mousedown", NoNode))
    /\ calls' = << >>
    /\ ev' = Event("load", 0, Undef, 0, 0)
    /\ UNCHANGED <<graphVars, visible, configVars, enableSimulation, seriesLayout,
                   hasStorage, graphLayoutsStorage, layouts, plot, fixedPosition,
                   inDragMode, destroyed, removed, phase, translated>>

\* A node the pointer can be over: drawn, in a visible series.
Hoverable(n) ==
    /\ n \in AllNodes
    /\ n[2] \in Range(nodes[n[1]])
    /\ visible[n[1]]
    /\ plot[n] # NoPos

\* The draggable option is not looked at.
MutIsDraggable(n) == n # NoNode

\* point && point.series && point.series.isNetworkgraph &&
\* point.series.options.draggable
IsDraggable(n) == n # NoNode /\ draggable[n[1]]

\* The container's mousedown handler, with chart.hoverPoint = n (NoNode:
\* no point, or a point of another series type, is hovered).
MouseDown(n, x, y) ==
    /\ phase = "idle"
    /\ \E i \in 1..Len(listeners) : listeners[i].kind = "mousedown"
    /\ (IF n = NoNode THEN TRUE ELSE Hoverable(n))
    /\ Len(listeners) + 2 <= 1 + 2 * MaxGestures
    /\ IF IsDraggable(n)
       THEN /\ \E W \in {onMouseDown(World, n, x, y)} : CommitDrag(W)
            /\ listeners' = addEvent(addEvent(listeners, Handler("mousemove", n)),
                                     Handler("mouseup", n))
            /\ unbinders' = unbinders \o Pushed(n)
       ELSE /\ \E W \in {World} : CommitDrag(W)
            /\ UNCHANGED <<unbinders, listeners>>
    /\ ev' = Event("mousedown", n[1], n[2], x, y)
    /\ UNCHANGED <<graphVars, visible, configVars, destroyed, removed, phase,
                   translated>>

\* A mousemove handler bound by an earlier mousedown and still bound.
MouseMove(i, x, y, choices) ==
    /\ phase = "idle"
    /\ i \in 1..Len(listeners)
    /\ listeners[i].kind = "mousemove"
    /\ \E choice \in (IF Accepted(World, listeners[i].node, x, y)
                       THEN choices ELSE {OneChoice}) :
       \E W \in {onMouseMove(World, listeners[i].node, x, y, choice)} :
            CommitDrag(W)
    /\ ev' = [Event("mousemove", listeners[i].node[1], listeners[i].node[2], x, y)
                EXCEPT !.name = IF Accepted(World, listeners[i].node, x, y)
                                THEN "mousemove" ELSE "mousemove-ignored"]
    /\ UNCHANGED <<graphVars, visible, configVars, unbinders, listeners, destroyed, removed,
                   phase, translated>>

\* A mouseup handler bound by an earlier mousedown and still bound.
MouseUp(i, choices) ==
    /\ phase = "idle"
    /\ i \in 1..Len(listeners)
    /\ listeners[i].kind = "mouseup"
    /\ \E choice \in (IF fixedPosition[listeners[i].node] # << >>
                       THEN choices ELSE {OneChoice}) :
       \E W \in {onMouseUp(World, listeners[i].node, choice)} : CommitDrag(W)
    /\ ev' = Event("mouseup", listeners[i].node[1], listeners[i].node[2], 0, 0)
    /\ UNCHANGED <<graphVars, visible, configVars, unbinders, listeners, destroyed, removed,
                   phase, translated>>

\* addEvent(chart, 'destroy'): every unbinder is called.
Destroy ==
    /\ ~destroyed
    /\ unbinders # << >>
    /\ destroyed' = TRUE
    /\ listeners' = UnbindAll(listeners, unbinders, 1)
    /\ calls' = << >>
    /\ ev' = Event("destroy", 0, Undef, 0, 0)
    /\ UNCHANGED <<graphVars, visible, configVars, enableSimulation, seriesLayout,
                   hasStorage, graphLayoutsStorage, layouts, plot, fixedPosition,
                   inDragMode, unbinders, removed, phase, translated>>

\* ------------------------------------------------------------------ Init
InitState ==
    /\ points = [s \in Series |-> << >>]
    /\ nodes = [s \in Series |-> << >>]
    /\ linksFrom = [s \in Series |-> [k \in Keys |-> << >>]]
    /\ linksTo = [s \in Series |-> [k \in Keys |-> << >>]]
    /\ createCalls = [s \in Series |-> [k \in Keys |-> 0]]
    /\ optionsNodes = [s \in Series |-> << >>]
    /\ visible = [s \in Series |-> TRUE]
    /\ seriesLayout = [s \in Series |-> 0]
    /\ hasStorage = FALSE
    /\ graphLayoutsStorage = [t \in Types |-> 0]
    /\ layouts = << >>
    /\ plot = [n \in AllNodes |-> NoPos]
    /\ fixedPosition = [n \in AllNodes |-> << >>]
    /\ inDragMode = [n \in AllNodes |-> FALSE]
    /\ unbinders = << >>
    /\ listeners = << >>
    /\ destroyed = FALSE
    /\ removed = {}
    /\ phase = "redraw"
    /\ translated = {}
    /\ calls = << >>
    /\ ev = Event("init", 0, Undef, 0, 0)

\* One series, its data and declared nodes replaced at will; no live
\* simulation and no pointer events.
Init ==
    /\ InitState
    /\ layoutType = [s \in Series |-> "reingold-fruchterman"]
    /\ enableSimulation = [s \in Series |-> FALSE]
    /\ forExport = Undef
    /\ draggable = [s \in Series |-> TRUE]
    /\ fixedDraggable = [s \in Series |-> FALSE]
    /\ mass = [n \in AllNodes |-> 1]

Next ==
    \/ \E d \in AllData : \E decl \in AllDeclared : Translate(1, d, decl)
    \/ Predraw
    \/ Render(OneChoice)

Spec == Init /\ [][Next]_vars

\* One series rebuilt at will, its nodes of every mass up to MaxMass, and
\* the methods of its points called on the rendered chart.
InitPoint ==
    /\ InitState
    /\ layoutType = [s \in Series |-> "reingold-fruchterman"]
    /\ enableSimulation = [s \in Series |-> FALSE]
    /\ forExport = Undef
    /\ draggable = [s \in Series |-> TRUE]
    /\ fixedDraggable = [s \in Series |-> FALSE]
    /\ mass \in {m \in [AllNodes -> 1..MaxMass] : \A n \in AllNodes : n[1] # 1 => m[n] = 1}

NextPoint ==
    \/ \E d \in AllData : \E decl \in AllDeclared : Translate(1, d, decl)
    \/ Predraw
    \/ Render(OneChoice)
    \/ phase = "idle" /\ \E k \in Keys : GetDegree(1, k)
    \/ phase = "idle" /\ \E i \in 1..MaxPoints : GetLinkDegree(1, i)
    \/ phase = "idle" /\ \E i \in 1..MaxPoints : GetMass(1, i)

SpecPoint == InitPoint /\ [][NextPoint]_vars

\* The same series with points removed between redraws.
ResolvedData == {d \in AllData : \A i \in 1..Len(d) : defined(d[i].from) /\ defined(d[i].to)}

NextRemove ==
    \/ \E d \in ResolvedData : Translate(1, d, << >>)
    \/ Predraw
    \/ Render(OneChoice)
    \/ \E k \in Keys : RemoveNode(1, k)
    \/ \E i \in 1..MaxPoints : RemoveLink(1, i)

SpecRemove == Init /\ [][NextRemove]_vars

\* Two series sharing the chart's layouts, under every configuration of
\* their layoutAlgorithm options and of chart.forExport; small data.
InitLayouts ==
    /\ InitState
    /\ layoutType \in {t \in [Series -> Types] : t[1] = "reingold-fruchterman"}
    /\ enableSimulation \in [Series -> BOOLEAN]
    /\ forExport \in {Undef, "true", "false"}
    /\ draggable = [s \in Series |-> TRUE]
    /\ fixedDraggable = [s \in Series |-> FALSE]
    /\ mass = [n \in AllNodes |-> 1]

SmallData == {<< >>, <<[from |-> "A", to |-> "B"]>>}

NextLayouts ==
    \/ \E s \in Series : \E d \in SmallData : Translate(s, d, << >>)
    \/ Predraw
    \/ Render(OneChoice)
    \/ \E s \in Series : UpdatedData(s)
    \/ \E s \in Series : SetVisible(s)
    \/ \E l \in 1..MaxLayouts : \E done \in BOOLEAN : Step(l, OneChoice, done)

SpecLayouts == InitLayouts /\ [][NextLayouts]_vars

\* Two series of the same or of different layout types, hidden and shown
\* and with points removed between redraws.
InitDispatch ==
    /\ InitState
    /\ layoutType \in {t \in [Series -> Types] : t[1] = "reingold-fruchterman"}
    /\ enableSimulation = [s \in Series |-> FALSE]
    /\ forExport = Undef
    /\ draggable = [s \in Series |-> TRUE]
    /\ fixedDraggable = [s \in Series |-> FALSE]
    /\ mass = [n \in AllNodes |-> 1]

NextDispatch ==
    \/ \E s \in Series : \E d \in SmallData : Translate(s, d, << >>)
    \/ Predraw
    \/ Render(OneChoice)
    \/ \E s \in Series : \E k \in Keys : RemoveNode(s, k)
    \/ \E s \in Series : \E i \in 1..MaxPoints : RemoveLink(s, i)
    \/ \E s \in Series : SetVisible(s)

SpecDispatch == InitDispatch /\ [][NextDispatch]_vars

\* One series with one link, dragged: every configuration of its
\* draggable, fixedDraggable and enableSimulation options.
InitDrag ==
    /\ InitState
    /\ layoutType = [s \in Series |-> "reingold-fruchterman"]
    /\ enableSimulation \in {e \in [Series -> BOOLEAN] : ~e[2]}
    /\ forExport = Undef
    /\ draggable \in {e \in [Series -> BOOLEAN] : e[2]}
    /\ fixedDraggable \in {e \in [Series -> BOOLEAN] : ~e[2]}
    /\ mass = [n \in AllNodes |-> 1]

DragData == <<[from |-> "A", to |-> "B"]>>

\* The nodes the pointer is ever over.
HoverNodes == {<<1, "A">>}

DragChoices == {c \in PosChoices : \A n \in AllNodes : n[1] # 1 => c[n] = <<1, 1>>}

NextDrag ==
    \/ Load
    \/ Translate(1, DragData, << >>)
    \/ Predraw
    \/ \E c \in DragChoices : Render(c)
    \/ \E n \in HoverNodes \cup {NoNode} : \E x \in ChartXs : \E y \in ChartYs :
            MouseDown(n, x, y)
    \/ \E i \in 1..(1 + 2 * MaxGestures) : \E x \in ChartXs : \E y \in ChartYs :
            MouseMove(i, x, y, DragChoices)
    \/ \E i \in 1..(1 + 2 * MaxGestures) : MouseUp(i, DragChoices)
    \/ \E l \in 1..MaxLayouts : \E c \in DragChoices : \E done \in BOOLEAN :
            Step(l, c, done)
    \/ Destroy

SpecDrag == InitDrag /\ [][NextDrag]_vars

\* ----------------------------------------------------------------- claims
Node(e) == <<e.series, e.key>>

RunCalls == {i \in 1..Len(calls) : calls[i].op = "run"}

\* C1: on a drag release the point is unmarked (inDragMode cleared and,
\* unless fixedDraggable is set, fixedPosition deleted) before layout.run()
\* is called, so the run started by the release sees the node as not pinned.
C1_UnmarkedBeforeRun ==
    ev.name = "mouseup" =>
        \A i \in RunCalls :
            /\ Node(ev) \notin calls[i].dragging
            /\ ~fixedDraggable[ev.series] => Node(ev) \notin calls[i].pinned

\* C2: no handler calls layout.run() on a layout whose simulation is
\* already active.
C2_NoRunWhileActive == \A i \in RunCalls : ~calls[i].active

\* C3: every link handed to the layout by deferLayout has both endpoints
\* resolved, and both are among the nodes handed to addNodes.
C3_LinksResolved ==
    ev.name = "translate" =>
        \A i, j \in 1..Len(calls) :
            calls[i].op = "addLinks" /\ calls[j].op = "addNodes" =>
                \A p \in calls[i].arg[1] :
                    /\ defined(p.fromNode)
                    /\ defined(p.toNode)
                    /\ <<p.series, p.fromNode>> \in calls[j].arg[1]
                    /\ <<p.series, p.toNode>> \in calls[j].arg[1]

\* C4: within one generatePoints pass createNode is called at most once per
\* key, every point naming a key gets that key's one node as fromNode or
\* toNode, and series.nodes never holds a key twice.
C4_NodeOncePerKey ==
    \A s \in Series :
        /\ \A k \in Keys : createCalls[s][k] <= 1
        /\ Distinct(nodes[s])
        /\ \A i \in 1..Len(points[s]) :
            /\ defined(points[s][i].from) =>
                    /\ points[s][i].fromNode = points[s][i].from
                    /\ points[s][i].from \in Range(nodes[s])
            /\ defined(points[s][i].to) =>
                    /\ points[s][i].toNode = points[s][i].to
                    /\ points[s][i].to \in Range(nodes[s])
        /\ Range(optionsNodes[s]) \subseteq Range(nodes[s])

\* A key named by two points and declared as well, with one node.
C4_Witness ==
    /\ ev.name = "translate"
    /\ Len(points[1]) = 2
    /\ points[1][1].from = "A"
    /\ points[1][2].to = "A"
    /\ optionsNodes[1] = <<"A">>
    /\ createCalls[1]["A"] = 1
    /\ nodes[1] = <<"B", "A">>

\* The keys the current points and node declarations of a series name.
NamedKeys(s) ==
    ({points[s][i].from : i \in 1..Len(points[s])}
        \cup {points[s][i].to : i \in 1..Len(points[s])}
        \cup Range(optionsNodes[s])) \ {Undef}

\* C5: after a rebuild, a node whose key the new points and declarations do
\* not name is no longer in series.nodes and is not passed to addNodes.
C5_AbsentKeyDestroyed ==
    ev.name = "translate" =>
        /\ Range(nodes[ev.series]) \subseteq NamedKeys(ev.series)
        /\ \A i \in 1..Len(calls) :
            calls[i].op = "addNodes" =>
                \A n \in calls[i].arg[1] : n[2] \in NamedKeys(ev.series)

\* C6: after the 'remove' event of a node, the layout holds neither the
\* node nor a link incident to it, and no later run references the node.
C6_RemovedNodeGone ==
    /\ ev.name = "removeNode" /\ seriesLayout[ev.series] # 0 =>
            /\ Node(ev) \notin layouts[seriesLayout[ev.series]].nodes
            /\ \A p \in layouts[seriesLayout[ev.series]].links :
                    ~Incident(p, Node(ev))
    /\ \A i \in RunCalls : layouts[calls[i].layout].nodes \cap removed = {}

\* C7: at most one layout is ever constructed per layoutAlgorithm.type, the
\* storage holds it under its type, a series' layout is the stored one of
\* its type, and a visible series has it after deferLayout.
C7_OneLayoutPerType ==
    /\ \A i, j \in 1..Len(layouts) : layouts[i].type = layouts[j].type => i = j
    /\ \A t \in Types :
            graphLayoutsStorage[t] # 0 => layouts[graphLayoutsStorage[t]].type = t
    /\ \A s \in Series :
            seriesLayout[s] # 0 => seriesLayout[s] = graphLayoutsStorage[layoutType[s]]
    /\ ev.name = "translate" /\ visible[ev.series] => seriesLayout[ev.series] # 0

\* Two series of one type share the one instance.
C7_Witness ==
    /\ layoutType[1] = layoutType[2]
    /\ seriesLayout[1] # 0
    /\ seriesLayout[2] = seriesLayout[1]
    /\ Len(layouts) = 1
    /\ layouts[1].series = {1, 2}

Ops(cs) == [i \in 1..Len(cs) |-> <<cs[i].op, cs[i].arg>>]

\* C9: an accepted drag move while no simulation runs calls run() once,
\* after setMaxIterations(1) exactly when live simulation is disabled,
\* between setInitialRendering(false) and setInitialRendering(true); the
\* initial-rendering flag of every layout is true after every handler.
C9_OneBoundedRun ==
    /\ ev.name = "mousemove" /\ ~calls[1].active =>
            /\ \A i \in 1..Len(calls) : calls[i].layout = seriesLayout[ev.series]
            /\ Ops(calls) =
                    (IF layouts[seriesLayout[ev.series]].enableSimulation
                     THEN << >> ELSE << <<"setMaxIterations", <<1>> >> >>)
                    \o << <<"setInitialRendering", <<FALSE>> >>,
                          <<"run", << >> >>,
                          <<"setInitialRendering", <<TRUE>> >> >>
    /\ \A l \in 1..Len(layouts) : layouts[l].initialRendering

\* The single-iteration run of a layout without live simulation.
C9_Witness ==
    /\ ev.name = "mousemove"
    /\ Len(calls) = 4
    /\ calls[1].op = "setMaxIterations"
    /\ ~calls[1].active
    /\ plot[Node(ev)] = <<7, 1>>

\* C10: an accepted drag move while the simulation runs calls
\* resetSimulation() and nothing else, and the run goes on with the
\* iterations it has counted.
C10_ExtendsRunningSimulation ==
    [][ev'.name = "mousemove" /\ layouts[seriesLayout[ev'.series]].simulation =>
        /\ Ops(calls') = << <<"resetSimulation", << >> >> >>
        /\ calls'[1].layout = seriesLayout[ev'.series]
        /\ layouts'[seriesLayout[ev'.series]].simulation
        /\ layouts'[seriesLayout[ev'.series]].iterations
                = layouts[seriesLayout[ev'.series]].iterations]_vars

\* A running simulation that had counted an iteration was extended.
C10_Witness ==
    /\ ev.name = "mousemove"
    /\ Len(calls) = 1
    /\ calls[1].op = "resetSimulation"
    /\ layouts[seriesLayout[ev.series]].simulation
    /\ layouts[seriesLayout[ev.series]].iterations > 0

\* The layouts a handler's calls of one method went to, in call order.
CallsOf(cs, op) == SelectSeq([i \in 1..Len(cs) |-> IF cs[i].op = op THEN cs[i].layout ELSE 0],
                             LAMBDA l : l # 0)

StoredNow == {l \in 1..Len(layouts) : \E t \in Types : graphLayoutsStorage[t] = l}

\* C11: 'predraw' calls stop() once on every stored layout and nothing else,
\* only translate runs between 'predraw' and 'render', so every stored
\* layout is reset (not simulating, no iteration counted) when 'render'
\* calls run() on it; 'render' calls run() once per stored layout and
\* nothing else, however many series share it; 'updatedData' on a series
\* with a layout calls stop() on that layout.
C11_ResetPrecedesRun ==
    [][/\ ev'.name = "predraw" =>
            /\ Len(calls') = Cardinality(StoredNow)
            /\ Range(CallsOf(calls', "stop")) = StoredNow
            /\ Len(CallsOf(calls', "stop")) = Len(calls')
            /\ phase' = "redraw"
       /\ phase = "redraw" => ev'.name \in {"translate", "render"}
       /\ ev'.name = "render" =>
            /\ phase = "redraw"
            /\ \A l \in StoredNow : ~layouts[l].simulation /\ layouts[l].iterations = 0
            /\ Len(calls') = Cardinality(StoredNow)
            /\ Range(CallsOf(calls', "run")) = StoredNow
            /\ Len(CallsOf(calls', "run")) = Len(calls')
            /\ \A i \in 1..Len(calls') : ~calls'[i].active
       /\ ev'.name = "updatedData" /\ seriesLayout[ev'.series] # 0 =>
            /\ Ops(calls') = << <<"stop", << >> >> >>
            /\ calls'[1].layout = seriesLayout[ev'.series]
            /\ ~layouts'[seriesLayout[ev'.series]].simulation]_vars

\* One layout shared by two series with nodes, stopped at 'predraw' while
\* its simulation was live.
C11_Witness ==
    /\ ev.name = "predraw"
    /\ Len(layouts) = 1
    /\ layouts[1].series = {1, 2}
    /\ {<<1, "A">>, <<2, "A">>} \subseteq layouts[1].nodes
    /\ Len(calls) = 1
    /\ calls[1].op = "stop"
    /\ calls[1].active

\* C12: getDegree of a node is linksFrom.length + linksTo.length when that
\* is positive and 1 when it is zero, getDegree of a link point is 1, and
\* the result is never 0 whatever rebuilds came before.
C12_DegreeFloor ==
    /\ ev.name = "getDegree" =>
            LET n == Len(linksFrom[ev.series][ev.key]) + Len(linksTo[ev.series][ev.key])
            IN  /\ n > 0 => ev.ret = n
                /\ n = 0 => ev.ret = 1
                /\ ev.ret # 0
    /\ ev.name = "getLinkDegree" => ev.ret = 1

\* A node that lost every link in a rebuild has degree 1.
C12_Witness ==
    /\ ev.name = "getDegree"
    /\ ev.key \notin NamedKeys(ev.series)
    /\ linksFrom[ev.series][ev.key] = << >>
    /\ linksTo[ev.series][ev.key] = << >>
    /\ ev.ret = 1
    /\ \E k \in Keys : Len(linksFrom[ev.series][k]) + Len(linksTo[ev.series][k]) = 3

MouseEvents == {"mousedown", "mousemove", "mousemove-ignored", "mouseup"}

\* C14: while the draggable option of a series is false, a mouse event on
\* one of its points sets no fixedPosition and no inDragMode, moves no
\* node, calls no layout method and binds no handler; none of its points
\* is ever pinned, in drag mode or the point of a bound handler.
C14_NotDraggable ==
    [][/\ ev'.name \in MouseEvents /\ ev'.series \in Series /\ ~draggable[ev'.series] =>
            /\ fixedPosition' = fixedPosition
            /\ inDragMode' = inDragMode
            /\ plot' = plot
            /\ layouts' = layouts
            /\ calls' = << >>
            /\ unbinders' = unbinders
       /\ \A n \in AllNodes : ~draggable[n[1]] =>
            /\ fixedPosition'[n] = << >>
            /\ ~inDragMode'[n]
            /\ \A i \in 1..Len(unbinders') : unbinders'[i].node # n]_vars

\* A mousedown over a rendered node of a series that is not draggable.
C14_Witness ==
    /\ ev.name = "mousedown"
    /\ Node(ev) = <<1, "A">>
    /\ ~draggable[1]
    /\ plot[<<1, "A">>] # NoPos
    /\ seriesLayout[1] # 0
    /\ unbinders = <<Handler("mousedown", NoNode)>>

\* C15: a mousedown on a draggable point records the point's plotX/plotY and
\* the pointer's chartX/chartY in its fixedPosition and sets inDragMode,
\* moves no node and calls no layout method; a drag move changes no
\* fixedPosition and no inDragMode, and a fixedPosition changes only in a
\* mousedown or a mouseup handler.
C15_PinRecordsStart ==
    [][/\ ev'.name = "mousedown" /\ ev'.series \in Series /\ draggable[ev'.series] =>
            /\ fixedPosition' = [fixedPosition EXCEPT ![Node(ev')] =
                    <<[chartX |-> ev'.chartX, chartY |-> ev'.chartY,
                       plotX |-> plot[Node(ev')][1], plotY |-> plot[Node(ev')][2]]>>]
            /\ inDragMode' = [inDragMode EXCEPT ![Node(ev')] = TRUE]
            /\ plot' = plot
            /\ layouts' = layouts
            /\ calls' = << >>
       /\ ev'.name \in {"mousemove", "mousemove-ignored"} =>
            /\ fixedPosition' = fixedPosition
            /\ inDragMode' = inDragMode
       /\ fixedPosition' # fixedPosition => ev'.name \in {"mousedown", "mouseup"}
       /\ inDragMode' # inDragMode => ev'.name \in {"mousedown", "mouseup"}]_vars

\* After an accepted move the record still holds the gesture's start, which
\* is no longer where the node is.
C15_Witness ==
    /\ ev.name = "mousemove"
    /\ inDragMode[Node(ev)]
    /\ fixedPosition[Node(ev)] =
            <<[chartX |-> 0, chartY |-> 0, plotX |-> 1, plotY |-> 1]>>
    /\ ev.chartX = 6
    /\ plot[Node(ev)] # <<1, 1>>

\* C16: after every accepted drag move the point is at the position its
\* fixedPosition recorded at the gesture's start plus the pointer's
\* displacement from the recorded pointer position, whatever moves and
\* layout runs came before in the gesture.
C16_PositionFromGestureStart ==
    ev.name = "mousemove" =>
        LET start == fixedPosition[Node(ev)][1]
        IN  plot[Node(ev)] = <<start.plotX + (ev.chartX - start.chartX),
                               start.plotY + (ev.chartY - start.chartY)>>

\* The pointer is 6px from the gesture's start on both axes; the layout has
\* moved the other node.
C16_Witness ==
    /\ ev.name = "mousemove"
    /\ fixedPosition[Node(ev)] =
            <<[chartX |-> 0, chartY |-> 0, plotX |-> 1, plotY |-> 1]>>
    /\ ev.chartX = 6
    /\ ev.chartY = 6
    /\ plot[Node(ev)] = <<7, 7>>
    /\ plot[<<1, "B">>] = <<6, 2>>

\* The links of a series that have node k at the given end.
LinksAt(s, k, end) ==
    {<<points[s][i].from, points[s][i].to>> :
        i \in {j \in 1..Len(points[s]) : points[s][j][end] = k}}

\* C17: after every generatePoints pass a point is in a node's linksFrom
\* exactly when the node is its fromNode and in its linksTo exactly when the
\* node is its toNode, once each; a node no point references has empty lists.
C17_LinkListsCurrent ==
    \A s \in Series : \A k \in Keys :
        /\ Range(linksFrom[s][k]) = LinksAt(s, k, "fromNode")
        /\ Range(linksTo[s][k]) = LinksAt(s, k, "toNode")
        /\ Distinct(linksFrom[s][k])
        /\ Distinct(linksTo[s][k])
        /\ k \notin Range(nodes[s]) => linksFrom[s][k] = << >> /\ linksTo[s][k] = << >>

\* A rebuild left node B of an earlier pass without a link, and node A with
\* the two links of this pass.
C17_Witness ==
    /\ ev.name = "translate"
    /\ nodes[1] = <<"A", "B">>
    /\ optionsNodes[1] = << >>
    /\ Len(points[1]) = 2
    /\ "B" \notin NamedKeys(1)
    /\ linksFrom[1]["B"] = << >> /\ linksTo[1]["B"] = << >>
    /\ Len(linksFrom[1]["A"]) + Len(linksTo[1]["A"]) = 3

\* C18: a translate of a visible series calls, on the series' layout and in
\* this order, setArea(0, 0, plotWidth, plotHeight), addSeries(series),
\* addNodes(series.nodes) and addLinks(series.points), once each and nothing
\* else; a translate of a series that is not visible calls nothing,
\* constructs no layout and leaves graphLayoutsStorage and series.layout
\* as they were.
C18_ReportsGraphInOrder ==
    [][ev'.name = "translate" =>
        LET s == ev'.series
        IN  /\ visible[s] =>
                /\ seriesLayout'[s] # 0
                /\ \A i \in 1..Len(calls') : calls'[i].layout = seriesLayout'[s]
                /\ Ops(calls') =
                        << <<"setArea", <<0, 0, PlotWidth, PlotHeight>> >>,
                           <<"addSeries", <<s>> >>,
                           <<"addNodes", <<{<<s, k>> : k \in Range(nodes'[s])}>> >>,
                           <<"addLinks", <<Range(points'[s])>> >> >>
            /\ ~visible[s] =>
                /\ calls' = << >>
                /\ layouts' = layouts
                /\ hasStorage' = hasStorage
                /\ graphLayoutsStorage' = graphLayoutsStorage
                /\ seriesLayout' = seriesLayout]_vars

\* Series 1 reported its link and two nodes; series 2, hidden before it
\* was ever translated, was translated in this redraw and has no layout.
C18_Witness ==
    /\ ev.name = "translate"
    /\ ev.series = 1
    /\ visible[1]
    /\ Len(calls) = 4
    /\ calls[3].arg[1] = {<<1, "A">>, <<1, "B">>}
    /\ Len(points[1]) = 1
    /\ 2 \in translated
    /\ ~visible[2]
    /\ seriesLayout[2] = 0

\* What a layout holds of the series other than s.
OfOthers(L, s) == <<{n \in L.nodes : n[1] # s}, {p \in L.links : p[1] # s}>>

\* C19: the 'remove' event of a point calls one method, removeNode(point)
\* for a node and removeLink(point) for a link, on the layout of the
\* point's series and on no other; no other layout changes, the layout
\* keeps what it holds of other series, and nothing is called when the
\* series has no layout.
C19_RemoveDispatch ==
    [][ev'.name \in {"removeNode", "removeLink"} =>
        LET s == ev'.series
            l == seriesLayout[s]
            point == IF ev'.name = "removeNode" THEN <<s, ev'.key>>
                     ELSE <<s, points[s][ev'.chartX].from, points[s][ev'.chartX].to>>
        IN  /\ l = 0 => calls' = << >> /\ layouts' = layouts
            /\ l # 0 =>
                /\ Ops(calls') = << <<ev'.name, <<point>> >> >>
                /\ calls'[1].layout = l
                /\ \A m \in 1..Len(layouts) : m # l => layouts'[m] = layouts[m]
                /\ OfOthers(layouts'[l], s) = OfOthers(layouts[l], s)
            /\ seriesLayout' = seriesLayout
            /\ graphLayoutsStorage' = graphLayoutsStorage]_vars

\* A node of series 1 was removed from its layout while the layout of
\* another type holds the graph of series 2.
C19_Witness ==
    /\ ev.name = "removeNode"
    /\ ev.series = 1
    /\ Len(layouts) = 2
    /\ seriesLayout[1] # 0 /\ seriesLayout[2] # 0
    /\ seriesLayout[1] # seriesLayout[2]
    /\ Len(calls) = 1
    /\ layouts[seriesLayout[2]].links # {}
    /\ Len(points[1]) = 1
    /\ layouts[seriesLayout[1]].links = {}

\* C20: a mousemove handler of a point that is not in drag mode (released,
\* and not pressed again) moves no node and calls no layout method, also
\* when fixedDraggable has kept the point's fixedPosition; only a mousedown
\* puts a point in drag mode; a mouseup handler of a point without
\* fixedPosition does nothing, and one of a point with it calls run() once.
C20_ReleasedIgnoresMoves ==
    [][/\ ev'.name \in {"mousemove", "mousemove-ignored"} /\ ~inDragMode[Node(ev')] =>
            /\ ev'.name = "mousemove-ignored"
            /\ plot' = plot
            /\ layouts' = layouts
            /\ calls' = << >>
            /\ ~inDragMode'[Node(ev')]
       /\ ev'.name = "mouseup" =>
            /\ ~inDragMode'[Node(ev')]
            /\ fixedPosition[Node(ev')] = << >> =>
                    /\ calls' = << >>
                    /\ plot' = plot
                    /\ layouts' = layouts
                    /\ fixedPosition' = fixedPosition
            /\ fixedPosition[Node(ev')] # << >> =>
                    /\ Ops(calls') = << <<"run", << >> >> >>
                    /\ calls'[1].layout = seriesLayout[ev'.series]
       /\ \A n \in AllNodes : ~inDragMode[n] /\ inDragMode'[n] =>
            ev'.name = "mousedown" /\ Node(ev') = n]_vars

\* A released point that kept its fixedPosition ignored a move of the
\* pointer 6px from the gesture's start.
C20_Witness ==
    /\ ev.name = "mousemove-ignored"
    /\ fixedDraggable[ev.series]
    /\ ~inDragMode[Node(ev)]
    /\ fixedPosition[Node(ev)] # << >>
    /\ Abs(ev.chartX - fixedPosition[Node(ev)][1].chartX) = 6
    /\ isInsidePlot(fixedPosition[Node(ev)][1].plotX + ev.chartX - fixedPosition[Node(ev)][1].chartX,
                    fixedPosition[Node(ev)][1].plotY + ev.chartY - fixedPosition[Node(ev)][1].chartY)

\* C21: a layout stored under its type stays the stored instance of that
\* type in every step, 'predraw' and 'render' included; a deferLayout of a
\* series whose type has a stored layout constructs nothing and changes no
\* layoutAlgorithm option, and no translate, 'predraw' or 'render' changes
\* the type, the enableSimulation or the maxIterations the stored layout was
\* constructed with, whatever the options of the series that registers.
C21_FirstCreatorConfigures ==
    [][/\ hasStorage => hasStorage'
       /\ \A t \in Types : graphLayoutsStorage[t] # 0 =>
            LET l == graphLayoutsStorage[t]
            IN  /\ graphLayoutsStorage'[t] = l
                /\ layouts'[l].type = t
                /\ ev'.name \in {"translate", "predraw", "render"} =>
                        /\ layouts'[l].enableSimulation = layouts[l].enableSimulation
                        /\ layouts'[l].maxIterations = layouts[l].maxIterations
       /\ ev'.name = "translate" /\ visible[ev'.series]
                /\ graphLayoutsStorage[layoutType[ev'.series]] # 0 =>
            /\ Len(layouts') = Len(layouts)
            /\ enableSimulation' = enableSimulation]_vars

\* Series 2 registered with the layout series 1 had created, its own
\* enableSimulation option being the opposite of the layout's.
C21_Witness ==
    /\ ev.name = "translate"
    /\ ev.series = 2
    /\ forExport = Undef
    /\ Len(layouts) = 1
    /\ layouts[1].series = {1, 2}
    /\ seriesLayout[2] = 1
    /\ layouts[1].enableSimulation = enableSimulation[1]
    /\ enableSimulation[2] # layouts[1].enableSimulation

\* C22: a deferLayout that constructs the layout gives it, and writes to the
\* series' layoutAlgorithm.enableSimulation, the negation of
\* chart.forExport when that is defined and the configured option when it
\* is not; a deferLayout that finds a stored layout changes neither the
\* layout's enableSimulation nor any series' option.
C22_ExportOverrideAtCreation ==
    [][ev'.name = "translate" /\ visible[ev'.series] =>
        LET s == ev'.series
            t == layoutType[s]
            expected == IF forExport = Undef THEN enableSimulation[s]
                        ELSE forExport = "false"
        IN  /\ graphLayoutsStorage[t] = 0 =>
                /\ graphLayoutsStorage'[t] = Len(layouts) + 1
                /\ Len(layouts') = Len(layouts) + 1
                /\ layouts'[Len(layouts')].enableSimulation = expected
                /\ enableSimulation' = [enableSimulation EXCEPT ![s] = expected]
            /\ graphLayoutsStorage[t] # 0 =>
                /\ layouts'[graphLayoutsStorage[t]].enableSimulation
                        = layouts[graphLayoutsStorage[t]].enableSimulation
                /\ enableSimulation' = enableSimulation]_vars

\* An exported chart: series 1 configured or not for live simulation made a
\* layout without it, and series 2, configured for it, registered with
\* that layout and kept its option.
C22_Witness ==
    /\ ev.name = "translate"
    /\ ev.series = 2
    /\ forExport = "true"
    /\ Len(layouts) = 1
    /\ seriesLayout[1] = 1 /\ seriesLayout[2] = 1
    /\ ~layouts[1].enableSimulation
    /\ ~enableSimulation[1]
    /\ enableSimulation[2]

\* C23: the chart's 'destroy' unbinds the container's mousedown handler and
\* the mousemove and mouseup handlers of every earlier mousedown, so that
\* no handler stays bound and no pointer event reaches onMouseDown,
\* onMouseMove or onMouseUp after it; until then every bound handler has
\* its unbinder kept, one mousemove/mouseup pair per gesture.
C23_DestroyUnbindsAll ==
    [][/\ destroyed' => listeners' = << >>
       /\ destroyed => ev'.name \notin MouseEvents
       /\ ~destroyed' =>
            /\ listeners' = unbinders'
            /\ ev'.name = "mousedown" /\ ev'.series \in Series /\ draggable[ev'.series] =>
                    Len(listeners') = Len(listeners) + 2]_vars

\* The chart was destroyed with the handlers of two gestures bound.
C23_Witness ==
    /\ destroyed
    /\ Len(unbinders) = 5
    /\ listeners = << >>
    /\ \E n \in AllNodes : inDragMode[n]

====
